---- MODULE Spec2Model ----
(***************************************************************************)
(* LlamaContextWrapper (app/src/main/cpp/llama_context_wrapper.cpp), the   *)
(* build with LLAMA_AVAILABLE set: one session object shared by the        *)
(* calling threads, and the inference engine reduced to the calls the      *)
(* wrapper makes on it (model / context / sampler allocation and release,  *)
(* tokenize, decode, sample, end-of-generation test, token-to-piece).      *)
(*                                                                         *)
(* Every public method is cut into steps at the points where another       *)
(* thread can observe or change the session: the mutex acquisition, each   *)
(* write of a flag, each engine call that uses a handle.                   *)
(***************************************************************************)
EXTENDS Integers, Sequences, FiniteSets, TLC

\* ------------------------------------------------------------------ bounds

\* Tokens one sampler chain draws before it is rebuilt: a generation call
\* that would take the chain past this is not started.
MaxDraws == 6

\* Objects of one kind the engine holds at once: loadModel is not started
\* when it could take the heap past this.
MaxLive == 2

\* Token ids are 0 .. VocabSize-1.
VocabSize == 6

\* The calling threads of the full program, and of the serial program (one
\* caller; cancelGeneration() still arrives from outside that caller).
Threads == {1, 2}
SerialThreads == {1}

\* ------------------------------------------------------------ engine data

NULL == 0

\* The end-of-generation token of the vocabulary (llama_vocab_is_eog).
EOG == 0
\* The leading marker llama_tokenize puts first when addBos is set.
BOS == 1
\* A token whose piece does not fit the 255 bytes detokenize offers:
\* llama_token_to_piece answers a negative length for it.
LongPieceToken == VocabSize - 1

\* LlamaConfig, the fields the wrapper reads.  topP, temperature and
\* repeatPenalty are floats in the source; here they are in tenths
\* (10 stands for 1.0f).
NoConfig == [none |-> TRUE]

CfgA == [contextSize |-> 6, batchSize |-> 4, maxTokens |-> 2, seed |-> 1,
         topK |-> 40, topP |-> 9, temperature |-> 8, repeatPenalty |-> 11]
CfgB == [contextSize |-> 5, batchSize |-> 1, maxTokens |-> 0, seed |-> 3,
         topK |-> 0, topP |-> 10, temperature |-> 0, repeatPenalty |-> 10]
CfgC == [contextSize |-> 8, batchSize |-> 2, maxTokens |-> 3, seed |-> -1,
         topK |-> 5, topP |-> 10, temperature |-> 7, repeatPenalty |-> 10]

\* A small window with a long generation: the token loop can run past it.
CfgD == [contextSize |-> 5, batchSize |-> 1, maxTokens |-> 5, seed |-> 1,
         topK |-> 0, topP |-> 10, temperature |-> 0, repeatPenalty |-> 11]

Configs == {CfgA, CfgB, CfgC, CfgD}

\* What std::time(nullptr) can give when the seed is negative.
ClockSeeds == {0, 4}

\* A prompt: the length of its text, the number of tokens the vocabulary
\* cuts it into (leading marker included), and whether the engine's
\* tokenizer rejects it whatever room it is given.
Prompts ==
    { [len |-> 0,  ntok |-> 0,  bad |-> FALSE],
      [len |-> 4,  ntok |-> 1,  bad |-> FALSE],
      [len |-> 8,  ntok |-> 2,  bad |-> FALSE],
      [len |-> 9,  ntok |-> 3,  bad |-> FALSE],
      [len |-> 4,  ntok |-> 18, bad |-> FALSE],
      [len |-> 12, ntok |-> 3,  bad |-> TRUE] }

\* Model files: one the engine loads, one it rejects.
Paths == {"good.gguf", "missing.gguf"}

\* What the callers pass when two threads call at once: a smaller choice.
ThreadConfigs == {CfgA}
ThreadPrompts == { [len |-> 8, ntok |-> 2, bad |-> FALSE],
                   [len |-> 9, ntok |-> 3, bad |-> FALSE] }

\* ------------------------------------------------------------------- state

VARIABLES
    mutex_,          \* owner of the session mutex, NULL when free
    model_,          \* llama_model*   (a handle of engine.models, or NULL)
    context_,        \* llama_context* (a handle of engine.contexts, or NULL)
    sampler_,        \* llama_sampler* (a handle of engine.samplers, or NULL)
    currentConfig_,  \* the stored default configuration
    lastError_,      \* the last-error slot
    isGenerating_,
    shouldCancel_,
    engine,          \* the engine's heap: every handle it ever gave out
    pc,              \* per thread: where it stands in its call
    loc,             \* per thread: arguments and locals of its call
    last,            \* the call that returned last
    crashed,         \* the process died on an invalid handle
    cancelNote       \* what cancelGeneration() met, for the running call

vars == << mutex_, model_, context_, sampler_, currentConfig_, lastError_,
           isGenerating_, shouldCancel_, engine, pc, loc, last,
           crashed, cancelNote >>

sessionVars == << model_, context_, sampler_, currentConfig_ >>


\* ------------------------------------------------------------ engine heap

\* The engine's heap holds, per kind, the objects it gave out and nobody
\* freed yet.  A handle is live when it names one of them.
Live(table, h) == h # NULL /\ h \in DOMAIN table

\* The handle the engine gives to a new object: the lowest one not in use.
NewHandle(table) ==
    CHOOSE h \in 1..(Cardinality(DOMAIN table) + 1) :
        /\ h \notin DOMAIN table
        /\ \A g \in 1..(h - 1) : g \in DOMAIN table

\* llama_model_free / llama_free / llama_sampler_free on handle h: the
\* object is gone.
FreeIn(table, h) == [g \in DOMAIN table \ {h} |-> table[g]]

\* A free of a handle that names no object (freed before): a double free.
BadFree(table, h) == h # NULL /\ h \notin DOMAIN table

\* llama_model_load_from_file: rejects a file it cannot read.
EngineLoads(path) == path = "good.gguf"

\* llama_tokenize into a buffer of cap tokens: the count, or the negated
\* count when the buffer is too small or the text cannot be encoded.
LlamaTokenize(prompt, cap) ==
    IF prompt.bad \/ prompt.ntok > cap THEN -(prompt.ntok) ELSE prompt.ntok

\* llama_token_to_piece: the piece of a token (one character per token
\* here), or a negative length when it does not fit the buffer.
PieceLength(tok) == IF tok = LongPieceToken THEN -1 ELSE 1
Piece(tok) == << tok >>

\* llama_vocab_is_eog
IsEog(tok) == tok = EOG

\* llama_sampler_sample: the token the chain draws, a function of the
\* state of its seeded distribution stage.
SampleToken(s) == (s.seed + s.draws) % VocabSize

\* ------------------------------------------------------- private helpers

setError(error) == error

clearError == ""

\* isModelLoaded as the build without the engine has it: always true.
isModelLoaded_stub == TRUE

isModelLoaded == model_ # NULL /\ context_ # NULL

isGenerating == isGenerating_

getLastError == lastError_

\* tokenize(text, addBos): the token ids of the prompt, empty on failure.
tokenize(prompt) ==
    LET estimate == (prompt.len \div 4) + 16
        first    == LlamaTokenize(prompt, estimate)
        second   == IF first < 0 THEN LlamaTokenize(prompt, -first) ELSE first
    IN  IF second < 0
        THEN << >>
        ELSE [i \in 1..second |-> IF i = 1 THEN BOS ELSE 2]

\* detokenize(tokens): the pieces in order, a token that fails skipped.
RECURSIVE detokenize(_)
detokenize(tokens) ==
    IF tokens = << >>
    THEN << >>
    ELSE (IF PieceLength(Head(tokens)) < 0 THEN << >> ELSE Piece(Head(tokens)))
         \o detokenize(Tail(tokens))

\* The chain with the temperature stage put before the truncation stages.
SamplerChain_tempFirst(config, seed) ==
    (IF config.repeatPenalty # 10
       THEN << [stage |-> "penalties", last_n |-> 64,
                repeat |-> config.repeatPenalty, freq |-> 0, present |-> 0] >>
       ELSE << >>)
    \o (IF config.temperature > 0
          THEN << [stage |-> "temp", t |-> config.temperature] >> ELSE << >>)
    \o (IF config.topK > 0
          THEN << [stage |-> "top_k", k |-> config.topK] >> ELSE << >>)
    \o (IF config.topP < 10
          THEN << [stage |-> "top_p", p |-> config.topP, min_keep |-> 1] >>
          ELSE << >>)
    \o << [stage |-> "dist", seed |-> seed] >>

\* The stages setupSampler appends to the chain, in order.
SamplerChain(config, seed) ==
    (IF config.repeatPenalty # 10
       THEN << [stage |-> "penalties", last_n |-> 64,
                repeat |-> config.repeatPenalty, freq |-> 0, present |-> 0] >>
       ELSE << >>)
    \o (IF config.topK > 0
          THEN << [stage |-> "top_k", k |-> config.topK] >> ELSE << >>)
    \o (IF config.topP < 10
          THEN << [stage |-> "top_p", p |-> config.topP, min_keep |-> 1] >>
          ELSE << >>)
    \o (IF config.temperature > 0
          THEN << [stage |-> "temp", t |-> config.temperature] >> ELSE << >>)
    \o << [stage |-> "dist", seed |-> seed] >>

\* The seeds setupSampler can give the distribution stage.
SamplerSeeds(config) == IF config.seed >= 0 THEN {config.seed} ELSE ClockSeeds

\* setupSampler(config) on engine heap e with sampler_ = s: the old chain
\* is freed when there is one, and a new chain takes a fresh handle.
setupSampler(e, s, config, seed) ==
    LET freed == IF s # NULL THEN FreeIn(e.samplers, s) ELSE e.samplers
        chain == [chain |-> SamplerChain(config, seed), seed |-> seed,
                  draws |-> 0]
    IN  [e EXCEPT
           !.samplers = (NewHandle(freed) :> chain) @@ freed,
           !.badFree  = @ \/ (s # NULL /\ BadFree(e.samplers, s))]

\* The handle setupSampler leaves in sampler_.
setupSamplerHandle(e, s) ==
    NewHandle(IF s # NULL THEN FreeIn(e.samplers, s) ELSE e.samplers)

\* ------------------------------------------------------------ thread data

NoPrompt == [len |-> 0, ntok |-> 0, bad |-> FALSE]

NoBatch == [cap |-> 0, n_tokens |-> 0, token |-> << >>, pos |-> << >>,
            seq_id |-> << >>, logits |-> << >>, allocated |-> FALSE,
            overflow |-> FALSE]

NoSampler == [chain |-> << >>, seed |-> 0, draws |-> 0]

NoEntry == [model |-> NULL, context |-> NULL, sampler |-> NoSampler]

\* The model handle, the context handle and the sampler chain of the session.
Entry ==
    [ model   |-> model_,
      context |-> context_,
      sampler |-> IF Live(engine.samplers, sampler_)
                  THEN engine.samplers[sampler_] ELSE NoSampler ]

InitLoc ==
    [ op           |-> "none",   \* the public method running
      path         |-> "",       \* loadModel: modelPath
      config       |-> NoConfig, \* the config argument (NoConfig: nullptr)
      prompt       |-> NoPrompt,
      ret          |-> "idle",   \* where unloadModel returns to
      cfg          |-> NoConfig, \* generateStream: const LlamaConfig& cfg
      promptTokens |-> << >>,
      n_ctx        |-> 0,
      batch        |-> NoBatch,
      n_cur        |-> 0,
      n_generated  |-> 0,
      vocab        |-> NULL,
      newToken     |-> 0,
      emitted      |-> << >>,    \* the texts handed to the callback, in order
      text         |-> << >>,    \* generate: std::string result
      decoded      |-> << >>,    \* the batches handed to llama_decode
      sampler0     |-> NoSampler,\* the chain as the token loop started
      entry        |-> NoEntry,  \* the handles and the chain as the call
                                 \* began, until the capacity check is passed
      unloaded     |-> FALSE,    \* no model was loaded as the call began
      stored       |-> NoConfig, \* currentConfig_ as the call began
      stop         |-> "",       \* why the token loop ended
      failed       |-> FALSE,    \* the call took a failure path
      result       |-> FALSE ]   \* loadModel: the value returned

NoCall == [op |-> "none", failed |-> FALSE, complete |-> FALSE,
           prompt |-> NoPrompt, cfg |-> NoConfig, emitted |-> << >>]

Init ==
    /\ mutex_ = NULL
    /\ model_ = NULL
    /\ context_ = NULL
    /\ sampler_ = NULL
    /\ currentConfig_ = NoConfig
    /\ lastError_ = ""
    /\ isGenerating_ = FALSE
    /\ shouldCancel_ = FALSE
    /\ engine = [models |-> << >>, contexts |-> << >>, samplers |-> << >>,
                 badFree |-> FALSE]
    /\ pc = [t \in Threads |-> "idle"]
    /\ loc = [t \in Threads |-> InitLoc]
    /\ last = NoCall
    /\ crashed = FALSE
    /\ cancelNote = [inFlight |-> FALSE, emittedAfter |-> 0]

\* The session holds no usable model: the model or the context is missing.
NoModelLoaded ==
    ~(Live(engine.models, model_) /\ Live(engine.contexts, context_))

\* A thread may start a public call.
CanCall(t) == ~crashed /\ pc[t] = "idle"

\* A load keeps the engine's heap within MaxLive objects of each kind.
CanLoad ==
    /\ Cardinality(DOMAIN engine.models) < MaxLive
    /\ Cardinality(DOMAIN engine.contexts) < MaxLive
    /\ Cardinality(DOMAIN engine.samplers) < MaxLive

\* A generation call with this config argument keeps the chain it samples
\* from within MaxDraws (an override rebuilds the chain first).
CanGenerate(config) ==
    IF config # NoConfig \/ ~Live(engine.samplers, sampler_)
         \/ currentConfig_ = NoConfig
    THEN TRUE
    ELSE engine.samplers[sampler_].draws + currentConfig_.maxTokens <= MaxDraws

At(t, label) == ~crashed /\ pc[t] = label

Goto(t, label) == pc' = [pc EXCEPT ![t] = label]

\* What a returned call leaves behind for the next one to be compared with.
\* Of a generation it keeps the prompt, the configuration in effect and the
\* texts emitted when the call ran to maxTokens or to end-of-generation.
Returned(t) ==
    IF loc[t].stop \in {"maxTokens", "eog"}
    THEN [ op |-> loc[t].op, failed |-> loc[t].failed, complete |-> TRUE,
           prompt |-> loc[t].prompt, cfg |-> loc[t].cfg,
           emitted |-> loc[t].emitted ]
    ELSE [ op |-> loc[t].op, failed |-> loc[t].failed, complete |-> FALSE,
           prompt |-> NoPrompt, cfg |-> NoConfig, emitted |-> << >> ]


\* ---------------------------------------------------------------- loadModel

\* std::lock_guard lock(mutex_); clearError();
loadModel_lock(t, configs) ==
    /\ CanCall(t)
    /\ CanLoad
    /\ mutex_ = NULL
    /\ \E path \in Paths, config \in configs :
          loc' = [loc EXCEPT ![t] = [InitLoc EXCEPT !.op = "loadModel",
                                                    !.path = path,
                                                    !.config = config,
                                                    !.unloaded = NoModelLoaded,
                                                    !.stored = currentConfig_]]
    /\ mutex_' = t
    /\ lastError_' = clearError
    /\ Goto(t, "lm_reload")
    /\ UNCHANGED << sessionVars, isGenerating_, shouldCancel_, engine, last,
                    crashed, cancelNote >>

\* loadModel loading over the model it holds, without unloading it first.
loadModel_reload_skip(t) ==
    /\ At(t, "lm_reload")
    /\ Goto(t, "lm_model")
    /\ UNCHANGED << mutex_, sessionVars, lastError_, isGenerating_,
                    shouldCancel_, engine, loc, last, crashed, cancelNote >>

\* if (model_ != nullptr) unloadModel();
loadModel_reload(t) ==
    /\ At(t, "lm_reload")
    /\ IF model_ # NULL
       THEN /\ loc' = [loc EXCEPT ![t].ret = "lm_model"]
            /\ Goto(t, "um_sampler")
       ELSE /\ loc' = loc
            /\ Goto(t, "lm_model")
    /\ UNCHANGED << mutex_, sessionVars, lastError_, isGenerating_,
                    shouldCancel_, engine, last, crashed, cancelNote >>

\* model_ = llama_model_load_from_file(...); on nullptr: setError, return false
loadModel_model(t) ==
    /\ At(t, "lm_model")
    /\ IF EngineLoads(loc[t].path)
       THEN /\ model_' = NewHandle(engine.models)
            /\ engine' = [engine EXCEPT
                            !.models = (NewHandle(@) :>
                                          [path |-> loc[t].path]) @@ @]
            /\ lastError_' = lastError_
            /\ loc' = loc
            /\ Goto(t, "lm_context")
       ELSE /\ model_' = NULL
            /\ engine' = engine
            /\ lastError_' = setError("Failed to load model from: " \o loc[t].path)
            /\ loc' = [loc EXCEPT ![t].failed = TRUE, ![t].result = FALSE]
            /\ Goto(t, "lm_return")
    /\ UNCHANGED << mutex_, context_, sampler_, currentConfig_, isGenerating_,
                    shouldCancel_, last, crashed, cancelNote >>

\* loadModel forgetting the model it loaded when the context is refused:
\* model_ = nullptr with no llama_model_free.
loadModel_context_orphan(t) ==
    /\ At(t, "lm_context")
    /\ \E created \in BOOLEAN :
          IF created
          THEN /\ context_' = NewHandle(engine.contexts)
               /\ engine' = [engine EXCEPT
                     !.contexts =
                         (NewHandle(@) :>
                            [n_ctx   |-> loc[t].config.contextSize,
                             n_batch |-> loc[t].config.batchSize,
                             model   |-> model_]) @@ @]
               /\ UNCHANGED << model_, lastError_, loc >>
               /\ Goto(t, "lm_sampler")
          ELSE /\ context_' = NULL
               /\ lastError_' = setError("Failed to create llama context")
               /\ engine' = engine
               /\ model_' = NULL
               /\ loc' = [loc EXCEPT ![t].failed = TRUE, ![t].result = FALSE]
               /\ Goto(t, "lm_return")
    /\ UNCHANGED << mutex_, sampler_, currentConfig_, isGenerating_,
                    shouldCancel_, last, crashed, cancelNote >>

\* context_ = llama_init_from_model(model_, ctxParams); on nullptr: setError,
\* llama_model_free(model_), model_ = nullptr, return false.  The engine may
\* refuse the context (no memory for the window asked for).
loadModel_context(t) ==
    /\ At(t, "lm_context")
    /\ IF ~Live(engine.models, model_)
       THEN \* the model was taken away under the loader: invalid handle
            /\ crashed' = TRUE
            /\ UNCHANGED << model_, context_, engine, lastError_, loc, pc >>
       ELSE \E created \in BOOLEAN :
            /\ crashed' = crashed
            /\ IF created
               THEN /\ context_' = NewHandle(engine.contexts)
                    /\ engine' = [engine EXCEPT
                          !.contexts =
                              (NewHandle(@) :>
                                 [n_ctx   |-> loc[t].config.contextSize,
                                  n_batch |-> loc[t].config.batchSize,
                                  model   |-> model_]) @@ @]
                    /\ UNCHANGED << model_, lastError_, loc >>
                    /\ Goto(t, "lm_sampler")
               ELSE /\ context_' = NULL
                    /\ lastError_' = setError("Failed to create llama context")
                    /\ engine' = [engine EXCEPT
                                    !.models = FreeIn(@, model_),
                                    !.badFree = @ \/ BadFree(engine.models, model_)]
                    /\ model_' = NULL
                    /\ loc' = [loc EXCEPT ![t].failed = TRUE, ![t].result = FALSE]
                    /\ Goto(t, "lm_return")
    /\ UNCHANGED << mutex_, sampler_, currentConfig_, isGenerating_,
                    shouldCancel_, last, cancelNote >>

\* setupSampler(config); currentConfig_ = config; return true
loadModel_sampler(t) ==
    /\ At(t, "lm_sampler")
    /\ \E seed \in SamplerSeeds(loc[t].config) :
          /\ engine' = setupSampler(engine, sampler_, loc[t].config, seed)
          /\ sampler_' = setupSamplerHandle(engine, sampler_)
    /\ currentConfig_' = loc[t].config
    /\ loc' = [loc EXCEPT ![t].result = TRUE]
    /\ Goto(t, "lm_return")
    /\ UNCHANGED << mutex_, model_, context_, lastError_, isGenerating_,
                    shouldCancel_, last, crashed, cancelNote >>

\* the lock_guard releases the mutex as loadModel returns
loadModel_return(t) ==
    /\ At(t, "lm_return")
    /\ mutex_' = NULL
    /\ last' = Returned(t)
    /\ loc' = [loc EXCEPT ![t] = InitLoc]
    /\ Goto(t, "idle")
    /\ UNCHANGED << sessionVars, lastError_, isGenerating_, shouldCancel_,
                    engine, crashed, cancelNote >>

\* -------------------------------------------------------------- unloadModel

\* The public unloadModel(): no lock is taken, no error is cleared.
unloadModel_call(t) ==
    /\ CanCall(t)
    /\ loc' = [loc EXCEPT ![t] = [InitLoc EXCEPT !.op = "unloadModel",
                                                 !.ret = "um_return",
                                                 !.unloaded = NoModelLoaded,
                                                 !.stored = currentConfig_]]
    /\ Goto(t, "um_sampler")
    /\ UNCHANGED << mutex_, sessionVars, lastError_, isGenerating_,
                    shouldCancel_, engine, last, crashed, cancelNote >>

\* unloadModel freeing the chain and keeping the pointer to it.
unloadModel_sampler_dangling(t) ==
    /\ At(t, "um_sampler")
    /\ IF sampler_ # NULL
       THEN /\ engine' = [engine EXCEPT
                            !.samplers = FreeIn(@, sampler_),
                            !.badFree = @ \/ BadFree(engine.samplers, sampler_)]
            /\ sampler_' = sampler_
       ELSE UNCHANGED << engine, sampler_ >>
    /\ Goto(t, "um_context")
    /\ UNCHANGED << mutex_, model_, context_, currentConfig_, lastError_,
                    isGenerating_, shouldCancel_, loc, last, crashed,
                    cancelNote >>

\* if (sampler_ != nullptr) { llama_sampler_free(sampler_); sampler_ = nullptr; }
unloadModel_sampler(t) ==
    /\ At(t, "um_sampler")
    /\ IF sampler_ # NULL
       THEN /\ engine' = [engine EXCEPT
                            !.samplers = FreeIn(@, sampler_),
                            !.badFree = @ \/ BadFree(engine.samplers, sampler_)]
            /\ sampler_' = NULL
       ELSE UNCHANGED << engine, sampler_ >>
    /\ Goto(t, "um_context")
    /\ UNCHANGED << mutex_, model_, context_, currentConfig_, lastError_,
                    isGenerating_, shouldCancel_, loc, last, crashed,
                    cancelNote >>

\* unloadModel dropping the context pointer without llama_free.
unloadModel_context_leak(t) ==
    /\ At(t, "um_context")
    /\ context_' = NULL
    /\ Goto(t, "um_model")
    /\ UNCHANGED << mutex_, model_, sampler_, currentConfig_, lastError_,
                    isGenerating_, shouldCancel_, engine, loc, last, crashed,
                    cancelNote >>

\* if (context_ != nullptr) { llama_free(context_); context_ = nullptr; }
unloadModel_context(t) ==
    /\ At(t, "um_context")
    /\ IF context_ # NULL
       THEN /\ engine' = [engine EXCEPT
                            !.contexts = FreeIn(@, context_),
                            !.badFree = @ \/ BadFree(engine.contexts, context_)]
            /\ context_' = NULL
       ELSE UNCHANGED << engine, context_ >>
    /\ Goto(t, "um_model")
    /\ UNCHANGED << mutex_, model_, sampler_, currentConfig_, lastError_,
                    isGenerating_, shouldCancel_, loc, last, crashed,
                    cancelNote >>

\* if (model_ != nullptr) { llama_model_free(model_); model_ = nullptr; }
\* and back to the caller: loadModel's reload branch, or the public call.
unloadModel_model(t) ==
    /\ At(t, "um_model")
    /\ IF model_ # NULL
       THEN /\ engine' = [engine EXCEPT
                            !.models = FreeIn(@, model_),
                            !.badFree = @ \/ BadFree(engine.models, model_)]
            /\ model_' = NULL
       ELSE UNCHANGED << engine, model_ >>
    /\ Goto(t, loc[t].ret)
    /\ UNCHANGED << mutex_, context_, sampler_, currentConfig_, lastError_,
                    isGenerating_, shouldCancel_, loc, last, crashed,
                    cancelNote >>

\* the public unloadModel() returns
unloadModel_return(t) ==
    /\ At(t, "um_return")
    /\ last' = Returned(t)
    /\ loc' = [loc EXCEPT ![t] = InitLoc]
    /\ Goto(t, "idle")
    /\ UNCHANGED << mutex_, sessionVars, lastError_, isGenerating_,
                    shouldCancel_, engine, crashed, cancelNote >>


\* ----------------------------------------------------------- generateStream

\* The handles the generation code hands to the engine are all valid.
HandlesLive ==
    /\ Live(engine.models, model_)
    /\ Live(engine.contexts, context_)
    /\ Live(engine.samplers, sampler_)

\* llama_batch_init(cfg.batchSize, 0, 1) filled with the prompt: token i at
\* position i, sequence 0, logits only for the last one.  A write at an
\* index the allocation does not have is recorded in overflow.
PromptBatch(cap, tokens) ==
    [ cap       |-> cap,
      n_tokens  |-> Len(tokens),
      token     |-> tokens,
      pos       |-> [i \in 1..Len(tokens) |-> i - 1],
      seq_id    |-> [i \in 1..Len(tokens) |-> << 0 >>],
      logits    |-> [i \in 1..Len(tokens) |-> i = Len(tokens)],
      allocated |-> TRUE,
      overflow  |-> Len(tokens) > cap ]

\* What llama_decode is handed: the entries of the batch up to n_tokens.
Submitted(batch) ==
    [ token |-> batch.token, pos |-> batch.pos, seq_id |-> batch.seq_id,
      logits |-> batch.logits ]

\* The one-token batch always at position 0.
TokenBatch_stalePos(batch, tok, n_cur) ==
    [ batch EXCEPT
        !.n_tokens = 1,
        !.token    = << tok >>,
        !.pos      = << 0 >>,
        !.seq_id   = << << 0 >> >>,
        !.logits   = << TRUE >>,
        !.overflow = @ \/ batch.cap < 1 ]

\* The batch rewritten for one generated token at position n_cur.
TokenBatch(batch, tok, n_cur) ==
    [ batch EXCEPT
        !.n_tokens = 1,
        !.token    = << tok >>,
        !.pos      = << n_cur >>,
        !.seq_id   = << << 0 >> >>,
        !.logits   = << TRUE >>,
        !.overflow = @ \/ batch.cap < 1 ]

\* The capacity check one token too strict.
PromptTooLong_offByOne(n, n_ctx) == n >= n_ctx - 4

\* if ((int)promptTokens.size() > n_ctx - 4)
PromptTooLong(n, n_ctx) == n > n_ctx - 4

\* The loop condition letting one token too many through.
LoopContinues_inclusive(n_generated, maxTokens, cancel) ==
    n_generated <= maxTokens /\ ~cancel

\* while (n_generated < cfg.maxTokens && !shouldCancel_)
LoopContinues(n_generated, maxTokens, cancel) ==
    n_generated < maxTokens /\ ~cancel

\* generate(prompt, config) and generateStream(prompt, callback, config):
\* std::lock_guard lock(mutex_); clearError();
generateStream_lock(t, prompts, configs) ==
    /\ CanCall(t)
    /\ mutex_ = NULL
    /\ \E prompt \in prompts, config \in configs \cup {NoConfig} :
          /\ CanGenerate(config)
          /\ loc' = [loc EXCEPT ![t] = [InitLoc EXCEPT !.op = "generateStream",
                                                    !.prompt = prompt,
                                                    !.config = config,
                                                    !.unloaded = NoModelLoaded,
                                                    !.entry = Entry,
                                                    !.stored = currentConfig_]]
    /\ mutex_' = t
    /\ lastError_' = clearError
    /\ cancelNote' = [inFlight |-> FALSE, emittedAfter |-> 0]
    /\ Goto(t, "gs_guard")
    /\ UNCHANGED << sessionVars, isGenerating_, shouldCancel_, engine, last,
                    crashed >>

\* if (!isModelLoaded()) { setError("Model not loaded"); return; }
\* const LlamaConfig& cfg = config ? *config : currentConfig_;
generateStream_guard(t) ==
    /\ At(t, "gs_guard")
    /\ IF ~isModelLoaded
       THEN /\ lastError_' = setError("Model not loaded")
            /\ loc' = [loc EXCEPT ![t].failed = TRUE]
            /\ Goto(t, "gs_return")
       ELSE /\ lastError_' = lastError_
            /\ loc' = [loc EXCEPT ![t].cfg =
                          IF loc[t].config # NoConfig THEN loc[t].config
                                                      ELSE currentConfig_]
            /\ Goto(t, "gs_setGenerating")
    /\ UNCHANGED << mutex_, sessionVars, isGenerating_, shouldCancel_, engine,
                    last, crashed, cancelNote >>

\* isGenerating_ = true;
generateStream_setGenerating(t) ==
    /\ At(t, "gs_setGenerating")
    /\ isGenerating_' = TRUE
    /\ Goto(t, "gs_resetCancel")
    /\ UNCHANGED << mutex_, sessionVars, lastError_, shouldCancel_, engine, loc,
                    last, crashed, cancelNote >>

\* shouldCancel_ = false;
generateStream_resetCancel(t) ==
    /\ At(t, "gs_resetCancel")
    /\ shouldCancel_' = FALSE
    /\ Goto(t, "gs_override")
    /\ UNCHANGED << mutex_, sessionVars, lastError_, isGenerating_, engine, loc,
                    last, crashed, cancelNote >>

\* if (config != nullptr) setupSampler(*config);
generateStream_override(t) ==
    /\ At(t, "gs_override")
    /\ IF loc[t].config # NoConfig
       THEN \E seed \in SamplerSeeds(loc[t].config) :
               /\ engine' = setupSampler(engine, sampler_, loc[t].config, seed)
               /\ sampler_' = setupSamplerHandle(engine, sampler_)
       ELSE UNCHANGED << engine, sampler_ >>
    /\ Goto(t, "gs_tokenize")
    /\ UNCHANGED << mutex_, model_, context_, currentConfig_, lastError_,
                    isGenerating_, shouldCancel_, loc, last, crashed,
                    cancelNote >>

\* promptTokens = tokenize(prompt, true); empty: setError, isGenerating_ =
\* false, return
generateStream_tokenize(t) ==
    /\ At(t, "gs_tokenize")
    /\ IF ~Live(engine.models, model_)
       THEN /\ crashed' = TRUE
            /\ UNCHANGED << lastError_, isGenerating_, loc, pc >>
       ELSE /\ crashed' = crashed
            /\ IF tokenize(loc[t].prompt) = << >>
               THEN /\ lastError_' = setError("Failed to tokenize prompt")
                    /\ isGenerating_' = FALSE
                    /\ loc' = [loc EXCEPT ![t].failed = TRUE]
                    /\ Goto(t, "gs_return")
               ELSE /\ loc' = [loc EXCEPT
                                 ![t].promptTokens = tokenize(loc[t].prompt)]
                    /\ Goto(t, "gs_capacity")
                    /\ UNCHANGED << lastError_, isGenerating_ >>
    /\ UNCHANGED << mutex_, sessionVars, shouldCancel_, engine, last,
                    cancelNote >>

\* n_ctx = llama_n_ctx(context_); if (promptTokens.size() > n_ctx - 4):
\* setError, isGenerating_ = false, return
generateStream_capacity(t) ==
    /\ At(t, "gs_capacity")
    /\ IF ~Live(engine.contexts, context_)
       THEN /\ crashed' = TRUE
            /\ UNCHANGED << lastError_, isGenerating_, loc, pc >>
       ELSE /\ crashed' = crashed
            /\ LET n_ctx == engine.contexts[context_].n_ctx IN
               IF PromptTooLong(Len(loc[t].promptTokens), n_ctx)
               THEN /\ lastError_' = setError("Prompt too long for context size")
                    /\ isGenerating_' = FALSE
                    /\ loc' = [loc EXCEPT ![t].failed = TRUE, ![t].n_ctx = n_ctx]
                    /\ Goto(t, "gs_return")
               ELSE /\ loc' = [loc EXCEPT ![t].n_ctx = n_ctx,
                                           ![t].entry = NoEntry]
                    /\ Goto(t, "gs_batch")
                    /\ UNCHANGED << lastError_, isGenerating_ >>
    /\ UNCHANGED << mutex_, sessionVars, shouldCancel_, engine, last,
                    cancelNote >>

\* batch = llama_batch_init(cfg.batchSize, 0, 1); the loop that fills it;
\* batch.logits[batch.n_tokens - 1] = true.  Nothing compares the number of
\* prompt tokens with cfg.batchSize: the writes at an index the allocation
\* does not have are undefined, the process dies on them or goes on.
generateStream_batch(t) ==
    /\ At(t, "gs_batch")
    /\ LET batch == PromptBatch(loc[t].cfg.batchSize, loc[t].promptTokens) IN
       \/ /\ loc' = [loc EXCEPT ![t].batch = batch]
          /\ Goto(t, "gs_promptDecode")
          /\ crashed' = crashed
       \/ \* a write past the allocation may end the process
          /\ batch.overflow
          /\ loc' = [loc EXCEPT ![t].batch = batch]
          /\ crashed' = TRUE
          /\ pc' = pc
    /\ UNCHANGED << mutex_, sessionVars, lastError_, isGenerating_,
                    shouldCancel_, engine, last, cancelNote >>

\* if (llama_decode(context_, batch) != 0): setError, llama_batch_free,
\* isGenerating_ = false, return.  Otherwise n_cur = batch.n_tokens,
\* n_generated = 0, vocab = llama_model_get_vocab(model_).
generateStream_promptDecode(t) ==
    /\ At(t, "gs_promptDecode")
    /\ IF ~HandlesLive
       THEN /\ crashed' = TRUE
            /\ UNCHANGED << lastError_, isGenerating_, loc, pc >>
       ELSE \E decoded \in BOOLEAN :
            /\ crashed' = crashed
            /\ IF decoded
               THEN /\ loc' = [loc EXCEPT
                         ![t].decoded = Append(@, Submitted(loc[t].batch)),
                         ![t].n_cur = loc[t].batch.n_tokens,
                         ![t].n_generated = 0,
                         ![t].vocab = model_,
                         ![t].sampler0 = engine.samplers[sampler_]]
                    /\ Goto(t, "gs_loop")
                    /\ UNCHANGED << lastError_, isGenerating_ >>
               ELSE /\ lastError_' = setError("Failed to process prompt")
                    /\ isGenerating_' = FALSE
                    /\ loc' = [loc EXCEPT
                         ![t].decoded = Append(@, Submitted(loc[t].batch)),
                         ![t].batch.allocated = FALSE,
                         ![t].failed = TRUE]
                    /\ Goto(t, "gs_return")
    /\ UNCHANGED << mutex_, sessionVars, shouldCancel_, engine, last,
                    cancelNote >>

\* while (n_generated < cfg.maxTokens && !shouldCancel_)
generateStream_loop(t) ==
    /\ At(t, "gs_loop")
    /\ IF LoopContinues(loc[t].n_generated, loc[t].cfg.maxTokens, shouldCancel_)
       THEN /\ Goto(t, "gs_sample")
            /\ loc' = loc
       ELSE /\ Goto(t, "gs_finish")
            /\ loc' = [loc EXCEPT ![t].stop =
                          IF loc[t].n_generated < loc[t].cfg.maxTokens
                          THEN "cancel" ELSE "maxTokens"]
    /\ UNCHANGED << mutex_, sessionVars, lastError_, isGenerating_,
                    shouldCancel_, engine, last, crashed, cancelNote >>

\* newToken = llama_sampler_sample(sampler_, context_, -1);
\* if (llama_vocab_is_eog(vocab, newToken)) break;
generateStream_sample(t) ==
    /\ At(t, "gs_sample")
    /\ IF ~HandlesLive
       THEN /\ crashed' = TRUE
            /\ UNCHANGED << engine, loc, pc >>
       ELSE LET tok == SampleToken(engine.samplers[sampler_]) IN
            /\ crashed' = crashed
            /\ engine' = [engine EXCEPT !.samplers[sampler_].draws = @ + 1]
            /\ loc' = [loc EXCEPT ![t].newToken = tok,
                                   ![t].stop = IF IsEog(tok) THEN "eog" ELSE @]
            /\ IF IsEog(tok) THEN Goto(t, "gs_finish") ELSE Goto(t, "gs_emit")
    /\ UNCHANGED << mutex_, sessionVars, lastError_, isGenerating_,
                    shouldCancel_, last, cancelNote >>

\* generate's callback keeping only the token it was handed last.
generateCallback_overwrite(result, token) == token

\* generate's callback: result += token
generateCallback(result, token) == result \o token

\* tokenStr = detokenize({newToken}); callback(tokenStr);
generateStream_emit(t) ==
    /\ At(t, "gs_emit")
    /\ IF ~Live(engine.models, model_)
       THEN /\ crashed' = TRUE
            /\ UNCHANGED << loc, pc, cancelNote >>
       ELSE /\ crashed' = crashed
            /\ LET tokenStr == detokenize(<< loc[t].newToken >>) IN
               loc' = [loc EXCEPT
                         ![t].emitted = Append(@, tokenStr),
                         ![t].text = generateCallback(@, tokenStr)]
            /\ cancelNote' = IF cancelNote.inFlight
                             THEN [cancelNote EXCEPT !.emittedAfter = @ + 1]
                             ELSE cancelNote
            /\ Goto(t, "gs_decode")
    /\ UNCHANGED << mutex_, sessionVars, lastError_, isGenerating_,
                    shouldCancel_, engine, last >>

\* The token loop going on after a failed decode: setError, continue.
generateStream_decode_continue(t) ==
    /\ At(t, "gs_decode")
    /\ \E decoded \in BOOLEAN :
         LET batch == TokenBatch(loc[t].batch, loc[t].newToken, loc[t].n_cur) IN
         IF decoded
         THEN /\ loc' = [loc EXCEPT
                   ![t].batch = batch,
                   ![t].decoded = Append(@, Submitted(batch)),
                   ![t].n_cur = @ + 1,
                   ![t].n_generated = @ + 1]
              /\ lastError_' = lastError_
              /\ Goto(t, "gs_loop")
         ELSE /\ loc' = [loc EXCEPT
                   ![t].batch = batch,
                   ![t].decoded = Append(@, Submitted(batch)),
                   ![t].stop = "decode",
                   ![t].failed = TRUE]
              /\ lastError_' = setError("Failed to decode token")
              /\ Goto(t, "gs_loop")
    /\ UNCHANGED << mutex_, sessionVars, isGenerating_, shouldCancel_, engine,
                    last, crashed, cancelNote >>

\* the one-token batch at position n_cur; if (llama_decode(...) != 0):
\* setError, break; otherwise n_cur++, n_generated++
generateStream_decode(t) ==
    /\ At(t, "gs_decode")
    /\ IF ~Live(engine.contexts, context_)
       THEN /\ crashed' = TRUE
            /\ UNCHANGED << lastError_, loc, pc >>
       ELSE \E decoded \in BOOLEAN :
            LET batch == TokenBatch(loc[t].batch, loc[t].newToken, loc[t].n_cur) IN
            /\ crashed' = crashed
            /\ IF decoded
               THEN /\ loc' = [loc EXCEPT
                         ![t].batch = batch,
                         ![t].decoded = Append(@, Submitted(batch)),
                         ![t].n_cur = @ + 1,
                         ![t].n_generated = @ + 1]
                    /\ lastError_' = lastError_
                    /\ Goto(t, "gs_loop")
               ELSE /\ loc' = [loc EXCEPT
                         ![t].batch = batch,
                         ![t].decoded = Append(@, Submitted(batch)),
                         ![t].stop = "decode",
                         ![t].failed = TRUE]
                    /\ lastError_' = setError("Failed to decode token")
                    /\ Goto(t, "gs_finish")
    /\ UNCHANGED << mutex_, sessionVars, isGenerating_, shouldCancel_, engine,
                    last, cancelNote >>

\* The end of the call leaving isGenerating_ as it is.
generateStream_finish_keep(t) ==
    /\ At(t, "gs_finish")
    /\ loc' = [loc EXCEPT ![t].batch.allocated = FALSE]
    /\ isGenerating_' = isGenerating_
    /\ Goto(t, "gs_return")
    /\ UNCHANGED << mutex_, sessionVars, lastError_, shouldCancel_, engine,
                    last, crashed, cancelNote >>

\* llama_batch_free(batch); isGenerating_ = false;
generateStream_finish(t) ==
    /\ At(t, "gs_finish")
    /\ loc' = [loc EXCEPT ![t].batch.allocated = FALSE]
    /\ isGenerating_' = FALSE
    /\ Goto(t, "gs_return")
    /\ UNCHANGED << mutex_, sessionVars, lastError_, shouldCancel_, engine,
                    last, crashed, cancelNote >>

\* The texts of a sequence put one after the other.
RECURSIVE Concat(_)
Concat(texts) ==
    IF texts = << >> THEN << >> ELSE Head(texts) \o Concat(Tail(texts))

\* generate(prompt, config): return result, what its callback accumulated.
generateResult(t) == loc[t].text

\* the lock_guard releases the mutex as generateStream returns
generateStream_return(t) ==
    /\ At(t, "gs_return")
    /\ mutex_' = NULL
    /\ last' = Returned(t)
    /\ loc' = [loc EXCEPT ![t] = InitLoc]
    /\ Goto(t, "idle")
    /\ UNCHANGED << sessionVars, lastError_, isGenerating_, shouldCancel_,
                    engine, crashed, cancelNote >>

\* cancelGeneration(), from a thread other than the one generating:
\* shouldCancel_ = true, with no lock.
cancelGeneration ==
    /\ ~crashed
    /\ shouldCancel_' = TRUE
    /\ cancelNote' = IF isGenerating_ /\ ~cancelNote.inFlight
                     THEN [inFlight |-> TRUE, emittedAfter |-> 0]
                     ELSE cancelNote
    /\ UNCHANGED << mutex_, sessionVars, lastError_, isGenerating_, engine, pc,
                    loc, last, crashed >>

\* ------------------------------------------------------------ the program

Step(t, prompts, configs) ==
    \/ loadModel_lock(t, configs)
    \/ loadModel_reload(t)
    \/ loadModel_model(t)
    \/ loadModel_context(t)
    \/ loadModel_sampler(t)
    \/ loadModel_return(t)
    \/ unloadModel_call(t)
    \/ unloadModel_sampler(t)
    \/ unloadModel_context(t)
    \/ unloadModel_model(t)
    \/ unloadModel_return(t)
    \/ generateStream_lock(t, prompts, configs)
    \/ generateStream_guard(t)
    \/ generateStream_setGenerating(t)
    \/ generateStream_resetCancel(t)
    \/ generateStream_override(t)
    \/ generateStream_tokenize(t)
    \/ generateStream_capacity(t)
    \/ generateStream_batch(t)
    \/ generateStream_promptDecode(t)
    \/ generateStream_loop(t)
    \/ generateStream_sample(t)
    \/ generateStream_emit(t)
    \/ generateStream_decode(t)
    \/ generateStream_finish(t)
    \/ generateStream_return(t)

\* Any thread may call anything at any time.
Next ==
    \/ \E t \in Threads : Step(t, ThreadPrompts, ThreadConfigs)
    \/ cancelGeneration

Spec == Init /\ [][Next]_vars

\* One caller makes the calls one after the other; cancelGeneration() comes
\* from a second thread while the caller is inside a call.
SerialNext ==
    \/ \E t \in SerialThreads : Step(t, Prompts, Configs)
    \/ cancelGeneration

SerialSpec == Init /\ [][SerialNext]_vars

\* ------------------------------------------------------------- properties

\* Where a thread stands between the entry guard of generateStream and the
\* end of its token loop.
GenerationLabels ==
    { "gs_setGenerating", "gs_resetCancel", "gs_override", "gs_tokenize",
      "gs_capacity", "gs_batch", "gs_promptDecode", "gs_loop", "gs_sample",
      "gs_emit", "gs_decode", "gs_finish" }

\* Where a thread stands once the capacity check is behind it.
AfterCapacityLabels ==
    { "gs_batch", "gs_promptDecode", "gs_loop", "gs_sample", "gs_emit",
      "gs_decode", "gs_finish", "gs_return" }

ReturnLabels == { "lm_return", "um_return", "gs_return" }

Generating(t) == loc[t].op = "generateStream"

NoLiveObjects ==
    /\ DOMAIN engine.models = {}
    /\ DOMAIN engine.contexts = {}
    /\ DOMAIN engine.samplers = {}

\* C1: while a generation call is in flight (past its entry guard, not yet
\* at the end of its token loop) the model, the context and the sampler
\* chain it uses are live: an unloadModel() from another thread has freed
\* none of them.
C1_UnloadWaitsForGeneration ==
    \A t \in Threads : pc[t] \in GenerationLabels => HandlesLive

\* C2: once cancelGeneration() has been called while isGenerating() was
\* true, at most one more token reaches the callback, and the call returns
\* with isGenerating false.
C2_CancelStopsWithinOneToken ==
    /\ cancelNote.inFlight => cancelNote.emittedAfter <= 1
    /\ \A t \in Threads :
          pc[t] = "gs_return" /\ cancelNote.inFlight => ~isGenerating_

\* C3: a generation call that began with no model loaded never shows
\* isGenerating true, hands nothing to the callback, and returns with
\* "Model not loaded" in the last-error slot.
C3_NotLoadedGenerationFails ==
    \A t \in Threads :
        Generating(t) /\ loc[t].unloaded =>
            /\ ~isGenerating_
            /\ loc[t].emitted = << >>
            /\ pc[t] \in {"gs_guard", "gs_return"}
            /\ pc[t] = "gs_return" =>
                  lastError_ = "Model not loaded" /\ loc[t].failed

\* C3 witness: a generation call made after unloadModel is about to return.
C3_Witness ==
    \E t \in Threads :
        /\ Generating(t) /\ loc[t].unloaded /\ pc[t] = "gs_return"
        /\ last.op = "unloadModel"

\* C4: when unloadModel returns right after a loadModel, no model is
\* loaded and the engine holds no object any more, none of them freed
\* twice (every allocation of the load has met exactly one free).
C4_LoadThenUnloadReleasesAll ==
    \A t \in Threads :
        pc[t] = "um_return" /\ last.op = "loadModel" =>
            /\ ~isModelLoaded
            /\ NoLiveObjects
            /\ ~engine.badFree

\* C4 witness: unloadModel returns after a loadModel that succeeded.
C4_Witness ==
    \E t \in Threads :
        pc[t] = "um_return" /\ last.op = "loadModel" /\ ~last.failed

\* C5: the engine never holds more than one model or more than one context,
\* and when loadModel is about to load the new model the engine holds
\* nothing of the previous load.
C5_OneModelContextPair ==
    /\ Cardinality(DOMAIN engine.models) <= 1
    /\ Cardinality(DOMAIN engine.contexts) <= 1
    /\ \A t \in Threads : pc[t] = "lm_model" => NoLiveObjects

\* C5 witness: loadModel, called on a loaded session, is about to load the
\* new model.
C5_Witness ==
    \E t \in Threads : pc[t] = "lm_model" /\ ~loc[t].unloaded

\* C6: a generation that ran to its end with a non-negative seed emits the
\* same texts as the generation just before it, when that one ran to its end
\* on the same prompt under the same configuration.
C6_SeededGenerationRepeats ==
    \A t \in Threads :
        ( /\ pc[t] = "gs_return"
          /\ loc[t].stop \in {"maxTokens", "eog"}
          /\ last.op = "generateStream"
          /\ last.complete
          /\ last.prompt = loc[t].prompt
          /\ last.cfg = loc[t].cfg
          /\ loc[t].cfg.seed >= 0 )
        => loc[t].emitted = last.emitted

\* C7: a generation call leaves the stored default configuration as it
\* found it, and a call made without an override samples from a chain built
\* from that stored default.
C7_OverrideIsPerCall ==
    \A t \in Threads :
        Generating(t) =>
            /\ currentConfig_ = loc[t].stored
            /\ ( pc[t] = "gs_sample" /\ loc[t].config = NoConfig
                 /\ Live(engine.samplers, sampler_) ) =>
                   \E seed \in SamplerSeeds(currentConfig_) :
                       engine.samplers[sampler_].chain =
                           SamplerChain(currentConfig_, seed)

\* C8: when a public operation returns, the last-error slot is non-empty
\* only if that operation failed.
C8_ErrorOnlyFromThisCall ==
    \A t \in Threads :
        pc[t] \in ReturnLabels /\ lastError_ # "" => loc[t].failed

\* C9: past the capacity check, a prompt of more than (window - 4) tokens
\* has made the call fail with "Prompt too long for context size", nothing
\* emitted, nothing decoded, isGenerating false; a prompt of at most
\* (window - 4) tokens has not met that error.
C9_CapacityCheck ==
    \A t \in Threads :
        ( Generating(t) /\ pc[t] \in AfterCapacityLabels
          /\ loc[t].promptTokens # << >>
          /\ Live(engine.contexts, context_) ) =>
            LET n      == Len(loc[t].promptTokens)
                window == engine.contexts[context_].n_ctx
            IN  IF n > window - 4
                THEN /\ pc[t] = "gs_return"
                     /\ lastError_ = "Prompt too long for context size"
                     /\ loc[t].emitted = << >>
                     /\ loc[t].decoded = << >>
                     /\ ~isGenerating_
                ELSE lastError_ # "Prompt too long for context size"

\* C9 witness: a prompt one token over the limit has been refused.
C9_Witness ==
    \E t \in Threads :
        /\ Generating(t) /\ pc[t] = "gs_return"
        /\ loc[t].promptTokens # << >>
        /\ Live(engine.contexts, context_)
        /\ Len(loc[t].promptTokens) = engine.contexts[context_].n_ctx - 3
        /\ lastError_ = "Prompt too long for context size"

\* C10: a generation call never hands the callback more texts than
\* maxTokens of the configuration in effect; with maxTokens = 0 it returns
\* with nothing emitted, an empty result and isGenerating false.
C10_EmitsAtMostMaxTokens ==
    \A t \in Threads :
        Generating(t) /\ loc[t].cfg # NoConfig =>
            /\ Len(loc[t].emitted) <= loc[t].cfg.maxTokens
            /\ ( loc[t].cfg.maxTokens = 0 /\ pc[t] = "gs_return" ) =>
                   /\ loc[t].emitted = << >>
                   /\ generateResult(t) = << >>
                   /\ ~isGenerating_

\* C10 witness: a call with maxTokens = 0 reached its token loop and is
\* about to return.
C10_Witness ==
    \E t \in Threads :
        /\ Generating(t) /\ pc[t] = "gs_return"
        /\ loc[t].cfg # NoConfig
        /\ loc[t].cfg.maxTokens = 0
        /\ loc[t].stop = "maxTokens"

\* C11: when loadModel is about to return failure, the session holds no
\* model, no context and no sampler chain and the engine holds no object
\* (none of them freed twice), whether or not a model was loaded as the
\* call began; an error is recorded and the stored default configuration
\* is the one the call found.
C11_LoadFailureUnwinds ==
    \A t \in Threads :
        pc[t] = "lm_return" /\ loc[t].failed =>
            /\ ~loc[t].result
            /\ model_ = NULL /\ context_ = NULL /\ sampler_ = NULL
            /\ ~isModelLoaded
            /\ NoLiveObjects
            /\ ~engine.badFree
            /\ lastError_ \in { "Failed to create llama context",
                                "Failed to load model from: " \o loc[t].path }
            /\ currentConfig_ = loc[t].stored

\* C11 witness: loadModel, called on a loaded session with another
\* configuration, is about to return failure because the context was refused.
C11_Witness ==
    \E t \in Threads :
        /\ pc[t] = "lm_return" /\ loc[t].failed
        /\ ~loc[t].unloaded
        /\ loc[t].config # loc[t].stored
        /\ lastError_ = "Failed to create llama context"

\* C12: at every point of a generation call, the text generate() has
\* accumulated is the texts handed to the callback put one after the other
\* in order; so it is when the call returns, a call that failed midway
\* included.
C12_GenerateIsConcatenation ==
    \A t \in Threads :
        Generating(t) => generateResult(t) = Concat(loc[t].emitted)

\* C12 witness: a call that handed two texts to the callback is about to
\* return after the decode of the second one failed.
C12_Witness ==
    \E t \in Threads :
        /\ Generating(t) /\ pc[t] = "gs_return"
        /\ loc[t].stop = "decode"
        /\ Len(loc[t].emitted) = 2
        /\ generateResult(t) # << >>

\* C13: when a generation call is about to return with "Model not loaded" or
\* "Prompt too long for context size", the model handle, the context handle,
\* the sampler chain and the stored configuration are what they were as the
\* call began, with or without a configuration override.
C13_ValidationFailureIsPure ==
    \A t \in Threads :
        ( /\ Generating(t) /\ pc[t] = "gs_return"
          /\ lastError_ \in { "Model not loaded",
                              "Prompt too long for context size" } )
        => /\ Entry = loc[t].entry
           /\ currentConfig_ = loc[t].stored

\* Every way generateStream ends: the error it recorded, or the reason its
\* token loop stopped.
ExitPaths ==
    { "Model not loaded", "Failed to tokenize prompt",
      "Prompt too long for context size", "Failed to process prompt",
      "decode", "eog", "maxTokens", "cancel" }

\* The exit path a thread about to return from generateStream has taken.
ExitPath(t) == IF loc[t].stop # "" THEN loc[t].stop ELSE lastError_

\* C14: isGenerating is false in every state where no thread is inside
\* generateStream, and false when generateStream is about to return,
\* whichever of its exit paths it took; the step that follows
\* isGenerating_ = true in a call that passed the entry guard leaves
\* shouldCancel_ false.
C14_GeneratingOnlyDuringCall ==
    /\ []( /\ (\A t \in Threads : ~Generating(t)) => ~isGenerating_
           /\ \A t \in Threads :
                 Generating(t) /\ pc[t] = "gs_return" =>
                     ~isGenerating_ /\ ExitPath(t) \in ExitPaths )
    /\ [][ \A t \in Threads :
               pc[t] = "gs_resetCancel" /\ pc'[t] # "gs_resetCancel"
                   => ~shouldCancel_' /\ isGenerating_' ]_vars

\* C14 witness: a call that was cancelled in its token loop is about to
\* return, isGenerating false again.
C14_Witness ==
    \E t \in Threads :
        /\ Generating(t) /\ pc[t] = "gs_return"
        /\ loc[t].stop = "cancel"
        /\ loc[t].emitted # << >>
        /\ ~isGenerating_

\* C15: once the decode of a generated token has failed, the call is at
\* its end (nothing more is sampled, emitted or decoded), the last-error
\* slot holds "Failed to decode token", every text handed to the callback
\* is still in the output, the one of the token whose decode failed being
\* the last, and the call returns with the batch freed and isGenerating
\* false.
C15_DecodeFailureKeepsOutput ==
    \A t \in Threads :
        Generating(t) /\ loc[t].stop = "decode" =>
            /\ pc[t] \in {"gs_finish", "gs_return"}
            /\ lastError_ = "Failed to decode token"
            /\ loc[t].failed
            /\ Len(loc[t].emitted) = loc[t].n_generated + 1
            /\ loc[t].emitted[Len(loc[t].emitted)] =
                   detokenize(<< loc[t].newToken >>)
            /\ generateResult(t) = Concat(loc[t].emitted)
            /\ Len(loc[t].decoded) = Len(loc[t].emitted) + 1
            /\ loc[t].decoded[Len(loc[t].decoded)].token = << loc[t].newToken >>
            /\ pc[t] = "gs_return" =>
                   ~isGenerating_ /\ ~loc[t].batch.allocated

\* C15 witness: a call is about to return after the decode of its third
\* generated token failed, the three texts in its output.
C15_Witness ==
    \E t \in Threads :
        /\ Generating(t) /\ pc[t] = "gs_return"
        /\ loc[t].stop = "decode"
        /\ loc[t].n_generated = 2
        /\ Len(loc[t].emitted) = 3
        /\ Len(generateResult(t)) = 3

\* Where a thread stands once it has handed the prompt batch to the engine.
AfterPromptDecodeLabels ==
    { "gs_loop", "gs_sample", "gs_emit", "gs_decode", "gs_finish" }

\* C16: in a generation call with an N-token prompt, the first batch decoded
\* holds the N prompt tokens at positions 0..N-1, each in sequence slot 0,
\* the logits flag set on the last one only; the k-th batch decoded after
\* it (k = 0, 1, ...) holds one token, at position N + k, logits flag set;
\* the text of a token is handed to the callback before the token is
\* decoded; an end-of-generation token is neither emitted nor decoded.
C16_BatchPositions ==
    \A t \in Threads :
        Generating(t) /\ pc[t] \in AfterPromptDecodeLabels =>
            LET N   == Len(loc[t].promptTokens)
                dec == loc[t].decoded
                out == loc[t].emitted
            IN  /\ Len(dec) >= 1
                /\ dec[1].token = loc[t].promptTokens
                /\ Len(dec[1].pos) = N /\ Len(dec[1].logits) = N
                /\ Len(dec[1].seq_id) = N
                /\ \A i \in 1..N :
                      /\ dec[1].pos[i] = i - 1
                      /\ dec[1].seq_id[i] = << 0 >>
                      /\ dec[1].logits[i] = (i = N)
                /\ \A k \in 0..(Len(dec) - 2) :
                      /\ Len(dec[k + 2].token) = 1
                      /\ dec[k + 2].pos = << N + k >>
                      /\ dec[k + 2].seq_id = << << 0 >> >>
                      /\ dec[k + 2].logits = << TRUE >>
                      /\ ~IsEog(dec[k + 2].token[1])
                      /\ k + 1 <= Len(out)
                      /\ out[k + 1] = detokenize(dec[k + 2].token)
                /\ Len(out) \in {Len(dec) - 1, Len(dec)}
                /\ pc[t] = "gs_decode" => Len(out) = Len(dec)
                /\ \A i \in 1..Len(out) : out[i] # Piece(EOG)
                /\ loc[t].stop = "eog" =>
                      /\ IsEog(loc[t].newToken)
                      /\ Len(out) = loc[t].n_generated
                      /\ Len(dec) = loc[t].n_generated + 1

\* C16 witness: a call with a 2-token prompt that fits its batch has
\* emitted and decoded two tokens and then drawn end-of-generation.
C16_Witness ==
    \E t \in Threads :
        /\ Generating(t) /\ pc[t] = "gs_finish"
        /\ loc[t].stop = "eog" /\ ~loc[t].failed
        /\ Len(loc[t].promptTokens) = 2
        /\ ~loc[t].batch.overflow
        /\ loc[t].n_generated = 2
        /\ Len(loc[t].decoded) = 3

\* A thread is inside unloadModel, called by the client or by loadModel.
Unloading(t) == pc[t] \in {"um_sampler", "um_context", "um_model", "um_return"}

\* C17: no free ever meets a handle that was freed before; a live sampler
\* chain has its context live and a live context has its model live
\* (the chain goes first, the model last); inside unloadModel the chain is
\* gone before the context is touched and the context before the model,
\* both still there until their turn when the session was loaded; and an
\* unloadModel that follows an unloadModel finds nothing to free.
C17_UnloadOrderAndIdempotence ==
    /\ ~engine.badFree
    /\ DOMAIN engine.samplers # {} => Live(engine.contexts, context_)
    /\ \A c \in DOMAIN engine.contexts :
          Live(engine.models, engine.contexts[c].model)
    /\ \A t \in Threads :
          /\ pc[t] = "um_context" =>
                /\ sampler_ = NULL /\ DOMAIN engine.samplers = {}
                /\ ~loc[t].unloaded =>
                      /\ Live(engine.contexts, context_)
                      /\ Live(engine.models, model_)
          /\ pc[t] = "um_model" =>
                /\ sampler_ = NULL /\ context_ = NULL
                /\ DOMAIN engine.samplers = {} /\ DOMAIN engine.contexts = {}
                /\ ~loc[t].unloaded => Live(engine.models, model_)
          /\ pc[t] = "um_return" =>
                /\ model_ = NULL /\ context_ = NULL /\ sampler_ = NULL
                /\ NoLiveObjects
          /\ ( Unloading(t) /\ loc[t].op = "unloadModel"
               /\ last.op = "unloadModel" ) =>
                /\ model_ = NULL /\ context_ = NULL /\ sampler_ = NULL
                /\ NoLiveObjects

\* C17 witness: on a session that was loaded earlier, an unloadModel called
\* right after an unloadModel is about to return.
C17_Witness ==
    \E t \in Threads :
        /\ pc[t] = "um_return" /\ loc[t].op = "unloadModel"
        /\ last.op = "unloadModel"
        /\ currentConfig_ # NoConfig
        /\ ~engine.badFree

\* The five stages in the order the specification lists them.
StageOrder == << "penalties", "top_k", "top_p", "temp", "dist" >>

\* The configurations under which a stage is part of the chain.
StagePresent(config, name) ==
    CASE name = "penalties" -> config.repeatPenalty # 10
      [] name = "top_k"     -> config.topK > 0
      [] name = "top_p"     -> config.topP < 10
      [] name = "temp"      -> config.temperature > 0
      [] name = "dist"      -> TRUE

\* The stage names a chain for this configuration is to have, in order.
ExpectedStages(config) ==
    LET Test(name) == StagePresent(config, name) IN SelectSeq(StageOrder, Test)

\* A chain is the one the specification describes for this configuration.
ChainMatches(chain, config) ==
    /\ [i \in 1..Len(chain) |-> chain[i].stage] = ExpectedStages(config)
    /\ chain[Len(chain)].stage = "dist"
    /\ \A i \in 1..Len(chain) :
          CASE chain[i].stage = "penalties" ->
                   /\ chain[i].last_n = 64
                   /\ chain[i].repeat = config.repeatPenalty
                   /\ chain[i].freq = 0 /\ chain[i].present = 0
            [] chain[i].stage = "top_k" -> chain[i].k = config.topK
            [] chain[i].stage = "top_p" -> chain[i].p = config.topP
            [] chain[i].stage = "temp"  -> chain[i].t = config.temperature
            [] chain[i].stage = "dist"  ->
                   IF config.seed >= 0 THEN chain[i].seed = config.seed
                                       ELSE chain[i].seed \in ClockSeeds

\* A thread has just come out of setupSampler(config): loadModel after line
\* 93, generateStream after line 175 when an override was passed.
AfterSetupSampler(t) ==
    \/ pc[t] = "lm_return" /\ loc[t].op = "loadModel" /\ loc[t].result
    \/ pc[t] = "gs_tokenize" /\ loc[t].config # NoConfig

\* C18: right after setupSampler(config) the session's chain is the stages
\* penalties (last 64 tokens, frequency and presence 0), top-K, top-P,
\* temperature, distribution in that order, each of the first four present
\* exactly under its condition on config, the distribution last and seeded
\* with config.seed when that is not negative; the engine holds that chain
\* only, the one before it freed (once).
C18_SamplerChainStages ==
    /\ Cardinality(DOMAIN engine.samplers) <= 1
    /\ ~engine.badFree
    /\ \A t \in Threads :
          AfterSetupSampler(t) =>
              /\ Live(engine.samplers, sampler_)
              /\ engine.samplers[sampler_].draws = 0
              /\ ChainMatches(engine.samplers[sampler_].chain, loc[t].config)

\* C18 witness: an override with all five stages has replaced a chain that
\* had the distribution stage only.
C18_Witness ==
    \E t \in Threads :
        /\ pc[t] = "gs_tokenize" /\ loc[t].config # NoConfig
        /\ Live(engine.samplers, sampler_)
        /\ Len(engine.samplers[sampler_].chain) = 5
        /\ Len(loc[t].entry.sampler.chain) = 1

\* C19: the prompt tokens written into the batch are never more than the
\* capacity the batch was allocated with (batchSize of the configuration in
\* effect): every write index is below that capacity.
C19_PromptFitsBatch ==
    \A t \in Threads :
        Generating(t) /\ loc[t].batch # NoBatch =>
            /\ loc[t].batch.n_tokens <= loc[t].batch.cap
            /\ ~loc[t].batch.overflow

\* C20: every position handed to llama_decode in a generation call is below
\* the size of the context window.
C20_PositionsInsideWindow ==
    \A t \in Threads :
        Generating(t) =>
            \A i \in 1..Len(loc[t].decoded) :
                \A j \in 1..Len(loc[t].decoded[i].pos) :
                    loc[t].decoded[i].pos[j] < loc[t].n_ctx

====
